---- MODULE Spec2Model ----
(***************************************************************************)
(* A model of the mini-STARK scripts of the quantum-safe repository:       *)
(* the Fibonacci trace generator, the leaf hasher, the Merkle commitment   *)
(* builders (mini_stark, vuln_stark, pqzk_poc/mini_stark_qsafe), the       *)
(* challenge sampler and the proof builder / verifier, the collision       *)
(* search of attack_vuln_stark and chainB_verify of pqzk_poc/bridge_sim    *)
(* with the toy RSA it verifies legacy signatures with, the factoring      *)
(* oracle of pqzk_poc/shor_demo with the key-recovery attack, and the      *)
(* MPC-in-the-head demo of redeploy-paper/simple_demo.                     *)
(*                                                                         *)
(* Python values are modelled as follows.  An int is a TLA+ integer.  A    *)
(* str is a sequence of character codes: the hex digits '0'..'9','a'..'f'  *)
(* are the codes 0..15, so a decimal digit and the same hex digit are the  *)
(* same character, as in Python.  A list is a sequence (index i of Python  *)
(* is index i+1 here).  A tuple is a TLA+ tuple.                           *)
(***************************************************************************)
EXTENDS Integers, Sequences, FiniteSets, TLC

VARIABLES
    salt,     \* which member of the modelled digest family sha3_512 is
    pc,       \* position of the driver script
    N,        \* the length asked of gen_fib_trace
    trace,    \* the list `trace` held by the driver
    err,      \* the exception the last call raised, "none" if it returned
    last,     \* the most recent commit_trace call: arguments and results
    prior,    \* the commit_trace call before it
    tampered, \* whether one trace element has been overwritten
    idxFrom,  \* who chose the challenge indices: "sampler" or "caller"
    sn, sk,   \* the arguments (n, k) of the last random_challenges call
    idx,      \* the challenge indices
    given,    \* the list passed to the last prove call, as it was on entry
    proof,    \* the list returned by prove, or the list handed to verify
    ok,       \* the value returned by verify
    okPrior,    \* the value verify returned before the proof was edited
    proofPrior, \* the proof as it was before it was edited
    edit,       \* how the proof was edited: "none", "corrupted", "permuted"
    editAt,     \* the position of the corrupted triple, 0 if none
    strength,   \* the hash function of the attacked commitment
    orig_root,  \* the root the attack driver got from commit_trace
    leaf_index, \* the leaf the attack substitutes (idx of the driver)
    max_try,    \* the size of the search space range(0, max_try)
    tried,      \* the candidates evaluated so far, in order
    found,      \* <<>> for None, <<c>> once candidate c has matched
    new_root,   \* the root the last recompute_root_with_new_leaf returned
    new_leaves, \* the leaves list it returned
    printed,    \* the outcomes the driver has printed
    signer_mode, \* the signer_mode argument of chainB_verify
    msg,         \* m: the integer legacy_verify_commit derives from the root
    sig,         \* the legacy signature passed as signer_blob
    pq_sig,      \* the Dilithium signature the caller holds for the root:
                 \* "valid", "invalid" or "missing"
    accepted,    \* the value chainB_verify / rsa_verify returned
    signed,      \* the signature rsa_sign gave for msg
    attempt,     \* the attempts shor_educational has made
    factors,     \* the list shor_educational returned, <<>> so far
    rec_d,       \* the exponent d the attack recovered, 0 if none
    attack_ret,  \* the value attack_legacy_with_shor returned
    witness,       \* the witness passed to SimpleMPC.run_protocol
    shares,        \* shares[party]: the input shares of each party
    output_shares, \* the output share of each party computed so far
    party_views,   \* the view of each party computed so far
    final_result,  \* the XOR of the output shares, after the correction
    commitments,   \* the commitment to each party view
    mpc_ret        \* the value run_protocol returned

vars == <<salt, pc, N, trace, err, last, prior, tampered,
          idxFrom, sn, sk, idx, given, proof, ok,
          okPrior, proofPrior, edit, editAt,
          strength, orig_root, leaf_index, max_try, tried, found,
          new_root, new_leaves, printed,
          signer_mode, msg, sig, pq_sig, accepted,
          signed, attempt, factors, rec_d, attack_ret,
          witness, shares, output_shares, party_views, final_result,
          commitments, mpc_ret>>

commitVars == <<last, prior, tampered>>
proofVars == <<idxFrom, sn, sk, idx, given, proof, ok>>
verifyVars == <<okPrior, proofPrior, edit, editAt>>
attackVars == <<strength, orig_root, leaf_index, max_try, tried, found,
                new_root, new_leaves, printed>>
bridgeVars == <<signer_mode, msg, sig, pq_sig, accepted>>
forgeVars == <<signed, attempt, factors, rec_d, attack_ret>>
mpcVars == <<witness, shares, output_shares, party_views, final_result,
             commitments, mpc_ret>>
restVars == <<forgeVars, mpcVars>>
extVars == <<verifyVars, attackVars, bridgeVars, restVars>>

(***************************************************************************)
(* Bounds of the model.                                                    *)
(***************************************************************************)
MaxN == 5
MaxK == 4
MaxVal == 5
MaxSalt == 1
MixMod == 5
MaxSupplied == 2
MaxProofLen == 2
MaxProofVal == 2
MaxTry == 7
MaxMsg == 31

NRange == (0 - 1)..MaxN
KRange == (0 - 1)..MaxK
ValRange == 0..MaxVal
SaltRange == 0..MaxSalt
IdxRange == (0 - (MaxN + 1))..MaxN

(***************************************************************************)
(* Program constants.                                                      *)
(***************************************************************************)
TruncHex == 4
rsa_p == 3
rsa_q == 5
rsa_e == 3
n_parties == 3
max_attempts == 10

(***************************************************************************)
(* str(x) of an int: its decimal digits, '-' first when negative.          *)
(***************************************************************************)
MinusChar == 16

RECURSIVE Digits(_)
Digits(v) ==
    IF v < 10 THEN <<v>> ELSE Append(Digits(v \div 10), v % 10)

str(v) ==
    IF v < 0 THEN <<MinusChar>> \o Digits(0 - v) ELSE Digits(v)

(***************************************************************************)
(* hashlib.sha3_512(s.encode()).hexdigest().  SHA3 itself is not computed  *)
(* here.  The digest of s is modelled as TruncHex hex characters that mix  *)
(* the characters of s (into MixMod values, so that these characters alone *)
(* collide on small inputs), followed by the rest of the digest, which     *)
(* determines s: the full digest is collision-free, and any prefix of      *)
(* TruncHex characters is not.  The rest is s between two marks that occur *)
(* in no decimal or hex string, so that the concatenation of two digests   *)
(* splits in one way only, as it does for digests of a fixed width.  salt  *)
(* selects the mixing function: each behaviour fixes one.                  *)
(***************************************************************************)
OpenMark == 17
CloseMark == 18

\* m^e modulo MixMod
RECURSIVE PowMod(_, _)
PowMod(m, e) ==
    IF e = 0 THEN 1 % MixMod
    ELSE IF e % 2 = 0 THEN (PowMod(m, e \div 2) * PowMod(m, e \div 2)) % MixMod
    ELSE (m * PowMod(m, e - 1)) % MixMod

\* The characters s[lo..hi] absorbed one after the other, each step taking
\* acc to acc * (salt + 2) + c + 1 modulo MixMod, from acc = 0.
RECURSIVE Absorb(_, _, _)
Absorb(s, lo, hi) ==
    IF lo > hi THEN 0
    ELSE IF lo = hi THEN (s[lo] + 1) % MixMod
    ELSE LET mid == (lo + hi) \div 2
         IN  (Absorb(s, lo, mid) * PowMod(salt + 2, hi - mid)
              + Absorb(s, mid + 1, hi)) % MixMod

RECURSIVE HexDigits(_, _)
HexDigits(v, w) ==
    IF w = 0 THEN <<>> ELSE Append(HexDigits(v \div 16, w - 1), v % 16)

sha3_512_hexdigest(s) ==
    HexDigits(Absorb(s, 1, Len(s)), TruncHex) \o <<OpenMark>> \o s \o <<CloseMark>>

\* Variant of hash512 that keeps a prefix of the digest only.
hash512_short(s) == SubSeq(sha3_512_hexdigest(s), 1, TruncHex)

\* mini_stark.hash512 / mini_stark_qsafe.hash512, applied to str(x)
hash512(s) == sha3_512_hexdigest(s)

\* vuln_stark.hash_trunc16, applied to str(x): h[:4]
hash_trunc16(s) == SubSeq(sha3_512_hexdigest(s), 1, TruncHex)

\* the hash_func parameter of commit_trace
hash_func(H, s) == IF H = "hash512" THEN hash512(s) ELSE hash_trunc16(s)

HashFuncs == {"hash512", "hash_trunc16"}

(***************************************************************************)
(* gen_fib_trace(n), the same code in the three scripts.                   *)
(***************************************************************************)
RECURSIVE FibLoop(_, _, _)
FibLoop(t, i, n) ==
    IF i >= n THEN t
    ELSE FibLoop(Append(t, t[Len(t)] + t[Len(t) - 1]), i + 1, n)

\* Variant of gen_fib_trace whose loop runs over range(2, n+1).
gen_fib_trace_long(n) == FibLoop(<<1, 1>>, 2, n + 1)

\* a generator whose list is all ones, of the same length
gen_fib_trace_flat(n) == [j \in 1..(IF n > 2 THEN n ELSE 2) |-> 1]

gen_fib_trace(n) == FibLoop(<<1, 1>>, 2, n)

(***************************************************************************)
(* The Merkle fold shared by commit_trace (mini_stark, vuln_stark),        *)
(* merkle_root_from_leaves (mini_stark_qsafe) and build_merkle_from_leaves *)
(* (attack_vuln_stark): the four loops are the same text.                  *)
(***************************************************************************)
\* leaves = [hash_func(v) for v in trace]: a fresh list on every call
RECURSIVE HashEach(_, _, _)
HashEach(t, H, i) ==
    IF i >= Len(t) THEN <<>>
    ELSE <<hash_func(H, str(t[i + 1]))>> \o HashEach(t, H, i + 1)

\* Variant of LeafDigests that appends to the list the previous call returned.
LeafDigestsStale(t, H) == last.leaves \o HashEach(t, H, 0)

LeafDigests(t, H) == HashEach(t, H, 0)

\* Variant of PadLevel that drops the odd node instead of duplicating it.
PadLevelDrop(L) == IF Len(L) % 2 # 0 THEN SubSeq(L, 1, Len(L) - 1) ELSE L

\* if len(leaves) % 2 != 0: leaves.append(leaves[-1])
PadLevel(L) == IF Len(L) % 2 # 0 THEN Append(L, L[Len(L)]) ELSE L

\* leaves = [hash_func(leaves[i] + leaves[i+1]) for i in range(0, len(leaves), 2)]
RECURSIVE PairFrom(_, _, _)
PairFrom(L, H, i) ==
    IF i >= Len(L) THEN <<>>
    ELSE <<hash_func(H, L[i + 1] \o L[i + 2])>> \o PairFrom(L, H, i + 2)

PairLevel(L, H) == PairFrom(L, H, 0)

\* Variant of FoldLevels whose loop stops at two digests.
RECURSIVE FoldLevelsEarly(_, _)
FoldLevelsEarly(L, H) ==
    IF Len(L) > 2 THEN <<L>> \o FoldLevelsEarly(PairLevel(PadLevel(L), H), H)
    ELSE <<L>>

\* The successive values of the list at the head of the while loop,
\* the value the loop exits with last.
RECURSIVE FoldLevels(_, _)
FoldLevels(L, H) ==
    IF Len(L) > 1 THEN <<L>> \o FoldLevels(PairLevel(PadLevel(L), H), H)
    ELSE <<L>>

FinalLevel(L, H) ==
    LET levels == FoldLevels(L, H) IN levels[Len(levels)]

\* mini_stark.commit_trace(trace, hash_func): returns leaves[0]
commit_trace(t, H) == FinalLevel(LeafDigests(t, H), H)[1]

\* vuln_stark.commit_trace(trace, hash_func): returns leaves[0], leaves,
\* where leaves is by then the list the loop exited with
vuln_commit_trace(t, H) ==
    LET leaves == FinalLevel(LeafDigests(t, H), H) IN <<leaves[1], leaves>>

\* mini_stark_qsafe.merkle_root_from_leaves(leaves): L = list(leaves), hash512
merkle_root_from_leaves(leaves) == FinalLevel(leaves, "hash512")[1]

\* mini_stark_qsafe.commit_trace(trace): returns root, leaves
qsafe_commit_trace(t) ==
    <<merkle_root_from_leaves(LeafDigests(t, "hash512")),
      LeafDigests(t, "hash512")>>

\* The commit implementations and the hash functions each can be called with.
Impls == {"mini_stark", "vuln_stark", "mini_stark_qsafe"}

ImplHashFuncs(impl) ==
    IF impl = "mini_stark_qsafe" THEN {"hash512"} ELSE HashFuncs

\* One commit_trace call: what it was given and what it returned.  leaves is
\* the second component of the returned pair (<<>> for mini_stark, which
\* returns the root alone); levels is the history of the loop.
NoCommit ==
    [impl |-> "none", hfunc |-> "none", trace |-> <<>>, root |-> <<>>,
     leaves |-> <<>>, levels |-> <<>>]

CommitCall(impl, t, H) ==
    LET ret == IF impl = "mini_stark" THEN <<commit_trace(t, H), <<>>>>
               ELSE IF impl = "vuln_stark" THEN vuln_commit_trace(t, H)
               ELSE qsafe_commit_trace(t)
    IN  [impl |-> impl, hfunc |-> H, trace |-> t,
         root |-> ret[1], leaves |-> ret[2],
         levels |-> FoldLevels(LeafDigests(t, H), H)]

(***************************************************************************)
(* The attack engine (attack_vuln_stark).  The script is written for       *)
(* hash_trunc16; H is the hash function of the commitment under attack, so *)
(* that the same search can be run against the full digest.                *)
(***************************************************************************)
\* Variant of build_merkle_from_leaves that folds the list it was passed
\* (L = leaves), so that the first L.append reaches the caller's list.
build_merkle_in_place(leaves, H) ==
    [root |-> FinalLevel(leaves, H)[1],
     leaves |-> IF Len(leaves) > 1 THEN PadLevel(leaves) ELSE leaves]

\* Variant of build_merkle_from_leaves that duplicates the last leaf before
\* folding, whatever the parity of the list.
build_merkle_dup_first(leaves, H) ==
    [root |-> FinalLevel(Append(leaves, leaves[Len(leaves)]), H)[1],
     leaves |-> leaves]

\* build_merkle_from_leaves(leaves, hash_func): L = list(leaves) is folded;
\* root is the value returned, leaves the caller's list after the call
build_merkle_from_leaves(leaves, H) ==
    [root |-> FinalLevel(leaves, H)[1], leaves |-> leaves]

\* recompute_root_with_new_leaf(trace, leaf_index, new_value): returns
\* root, leaves; trace is the caller's list after the call
recompute_root_with_new_leaf(t, li, v, H) ==
    LET leaves == [LeafDigests(t, H) EXCEPT ![li + 1] = hash_func(H, str(v))]
        built == build_merkle_from_leaves(leaves, H)
    IN  [root |-> built.root, leaves |-> built.leaves, trace |-> t]

\* Variant of the loop body without the break.
NoBreak(matched) == FALSE

\* if new_root == orig_root: ...; break
Breaks(matched) == matched

\* `not found` of Python: true of None and of 0
PyNot(f) == f = <<>> \/ f = <<0>>

OutFound == "Found collision!"
OutNone == "No collision found"

(***************************************************************************)
(* random_challenges(n, k) == random.sample(range(n-2), k).  random.sample *)
(* raises ValueError unless 0 <= k <= len(population), and otherwise       *)
(* returns any k distinct elements of the population in any order; the     *)
(* population range(n-2) is empty when n <= 2.                             *)
(***************************************************************************)
IsInjective(s) == \A a, b \in DOMAIN s : s[a] = s[b] => a = b

\* len(range(m))
RangeLen(m) == IF m > 0 THEN m ELSE 0

SampleRaises(n, k) == ~(0 <= k /\ k <= RangeLen(n - 2))

\* Variant of Samples that draws with replacement.
SamplesRepeat(n, k) == [1..k -> 0..(RangeLen(n - 2) - 1)]

Samples(n, k) == {s \in [1..k -> 0..(RangeLen(n - 2) - 1)] : IsInjective(s)}

(***************************************************************************)
(* prove(trace, indices) / prove_trace(trace, indices).  trace[i] is       *)
(* Python's list indexing: i in -len..len-1, a negative i counting from    *)
(* the end, and IndexError otherwise.  The exception leaves the loop and   *)
(* the function: no proof is returned.                                     *)
(***************************************************************************)
PyValid(t, i) == (0 - Len(t)) <= i /\ i < Len(t)

PyIndex(t, i) == IF i >= 0 THEN t[i + 1] ELSE t[Len(t) + i + 1]

TripleRaises(t, i) ==
    ~(PyValid(t, i) /\ PyValid(t, i + 1) /\ PyValid(t, i + 2))

\* Variant of Triple whose left-hand side is copied from trace[i+2].
TripleSelf(t, i) == <<i, PyIndex(t, i + 2), PyIndex(t, i + 2)>>

\* Variant of Triple whose right-hand side is trace[i+1].
TripleOff(t, i) == <<i, PyIndex(t, i) + PyIndex(t, i + 1), PyIndex(t, i + 1)>>

Triple(t, i) == <<i, PyIndex(t, i) + PyIndex(t, i + 1), PyIndex(t, i + 2)>>

prove(t, indices) ==
    IF \E j \in 1..Len(indices) : TripleRaises(t, indices[j])
    THEN [err |-> "IndexError", proof |-> <<>>, trace |-> t]
    ELSE [err |-> "none",
          proof |-> [j \in 1..Len(indices) |-> Triple(t, indices[j])],
          trace |-> t]

\* verify(proof) / verify_proof(proof): the loop over the triples, from
\* triple j on; it returns False at the first triple with lhs != rhs
RECURSIVE VerifyLoop(_, _)
VerifyLoop(p, j) ==
    IF j > Len(p) THEN TRUE
    ELSE IF p[j][2] # p[j][3] THEN FALSE
    ELSE VerifyLoop(p, j + 1)

\* a verifier that rejects the empty proof
verify_nonempty(p) == Len(p) > 0 /\ VerifyLoop(p, 1)

\* a verifier that looks at the first triple only
verify_first(p) == Len(p) = 0 \/ p[1][2] = p[1][3]

verify(p) == VerifyLoop(p, 1)

(***************************************************************************)
(* The bridge (pqzk_poc/bridge_sim) and its toy RSA (legacy_rsa_toy).      *)
(***************************************************************************)
\* N = p * q
rsa_N == rsa_p * rsa_q

\* pow(b, e, n) for e >= 0
RECURSIVE PyPow(_, _, _)
PyPow(b, e, n) == IF e = 0 THEN 1 % n ELSE (b * PyPow(b, e - 1, n)) % n

\* inverse(a, n) / pow(a, -1, n), for a invertible modulo n
PyInverse(a, n) == CHOOSE x \in 0..(n - 1) : (a * x) % n = 1 % n

\* phi = (p-1)*(q-1)
rsa_phi == (rsa_p - 1) * (rsa_q - 1)

\* d = inverse(e, phi)
rsa_d == PyInverse(rsa_e, rsa_phi)

\* Variant of rsa_sign that returns the message itself, reduced.
rsa_sign_plain(m) == m % rsa_N

\* rsa_sign(m)
rsa_sign(m) == PyPow(m, rsa_d, rsa_N)

\* rsa_verify(m, s)
rsa_verify(m, s) == PyPow(s, rsa_e, rsa_N) = m % rsa_N

\* legacy_verify_commit(root_str, signature), m being
\* int(sha256(root_str).hexdigest(), 16) % rsa.N
legacy_verify_commit(m, s) == rsa_verify(m, s)

SignerModes == {"legacy", "pq", "other"}
PqSigs == {"valid", "invalid", "missing"}

\* chainB_verify(root_str, proof, signer_mode, signer_blob); in 'pq' mode
\* signer_blob is (sig_impl, pk) and holds no signature
chainB_verify(m, p, mode, s) ==
    IF ~verify(p) THEN FALSE
    ELSE IF mode = "legacy" THEN legacy_verify_commit(m, s)
    ELSE IF mode = "pq" THEN TRUE
    ELSE FALSE

(***************************************************************************)
(* The factoring oracle (pqzk_poc/shor_demo) and the key recovery of       *)
(* attack_legacy_with_shor.  A list of factors is a sequence, <<>> when     *)
(* the oracle gives up; None is <<>> as well.                              *)
(***************************************************************************)
\* gcd(a, b)
RECURSIVE gcd(_, _)
gcd(a, b) == IF b = 0 THEN a ELSE gcd(b, a % b)

\* mod_exp(base, exp, mod): the while loop, from its loop variables
RECURSIVE ModExpLoop(_, _, _, _)
ModExpLoop(result, base, exp, mod) ==
    IF exp > 0
    THEN ModExpLoop(IF exp % 2 = 1 THEN (result * base) % mod ELSE result,
                    (base * base) % mod, exp \div 2, mod)
    ELSE result

mod_exp(base, exp, mod) == ModExpLoop(1, base % mod, exp, mod)

\* find_period_classical(a, N): the first r of range(1, N) with a^r = 1
find_period_classical(a, n) ==
    LET rs == {r \in 1..(n - 1) : mod_exp(a, r, n) = 1}
    IN  IF rs = {} THEN <<>>
        ELSE <<CHOOSE r \in rs : \A r2 \in rs : r <= r2>>

\* int(math.log2(N))
RECURSIVE Log2Floor(_)
Log2Floor(n) == IF n < 2 THEN 0 ELSE 1 + Log2Floor(n \div 2)

\* root ** k
RECURSIVE IntPow(_, _)
IntPow(b, k) == IF k = 0 THEN 1 ELSE b * IntPow(b, k - 1)

\* shor_educational, steps 1 and 2: an even N, then a perfect power
\* root ** k == N for the first k of range(2, int(log2(N)) + 1)
ShorTrivial(n) ==
    IF n % 2 = 0 THEN <<2, n \div 2>>
    ELSE LET ks == {k \in 2..Log2Floor(n) :
                       \E root \in 2..n : IntPow(root, k) = n}
         IN  IF ks = {} THEN <<>>
             ELSE LET k == CHOOSE k1 \in ks : \A k2 \in ks : k1 <= k2
                      root == CHOOSE r \in 2..n : IntPow(r, k) = n
                  IN  <<root, n \div root>>

\* shor_educational, one attempt of step 3 with the random a: the factors
\* it returns, <<>> when it goes on to the next attempt
ShorTry(a, n) ==
    LET g == gcd(a, n)
        period == find_period_classical(a, n)
    IN  IF g > 1 THEN <<g, n \div g>>
        ELSE IF period = <<>> THEN <<>>
        ELSE IF period[1] % 2 = 1 THEN <<>>
        ELSE LET half == mod_exp(a, period[1] \div 2, n)
                 factor1 == gcd(half - 1, n)
                 factor2 == gcd(half + 1, n)
             IN  IF half = n - 1 THEN <<>>
                 ELSE IF 1 < factor1 /\ factor1 < n
                      THEN <<factor1, n \div factor1>>
                 ELSE IF 1 < factor2 /\ factor2 < n
                      THEN <<factor2, n \div factor2>>
                 ELSE <<>>

\* Variant of phi_of that adds the two factors.
phi_of_sum(p, q) == p + q - 1

\* attack_legacy_with_shor: phi = (p-1)*(q-1)
phi_of(p, q) == (p - 1) * (q - 1)

\* relay_build_proof: the proofs of a generated trace for the challenges
\* the sampler can draw (length MaxN and MaxN - 3 challenges here)
relay_build_proof ==
    {prove(gen_fib_trace(MaxN), i).proof : i \in Samples(MaxN, MaxN - 3)}

(***************************************************************************)
(* The MPC-in-the-head demo (redeploy-paper/simple_demo).  A bit is 0 or   *)
(* 1; a party view is a record; party p of Python is index p + 1.          *)
(***************************************************************************)
\* x ^ y and x & y on bits
Xor(x, y) == (x + y) % 2
BitAnd(x, y) == x * y

\* secret_share(secret_bits) with the random bits r: r[b] = <<s1, s2>> for
\* bit b; shares[party] is the list of that party's shares
secret_share(bits, r) ==
    [p \in 1..n_parties |->
        [b \in 1..Len(bits) |->
            IF p = 1 THEN r[b][1]
            ELSE IF p = 2 THEN r[b][2]
            ELSE Xor(Xor(bits[b], r[b][1]), r[b][2])]]

\* compute_and_gate(party_id, a_share, b_share)
compute_and_gate(party_id, a_share, b_share) ==
    IF party_id = 0 THEN Xor(BitAnd(a_share, b_share), 1)
    ELSE BitAnd(a_share, b_share)

\* hashlib.sha256(str(view).encode()).hexdigest()[:8]: a truncated digest of
\* the values printed in str(view)
view_commitment(view) ==
    LET text == <<view.party_id, view.input_shares[1], view.input_shares[2],
                  view.output_share>>
    IN  HexDigits(Absorb(text, 1, Len(text)), TruncHex)

\* run_protocol, step 7: the checks on the opened parties 0 and 1
mpc_verify(views, commits) ==
    /\ \A p \in {1, 2} : view_commitment(views[p]) = commits[p]
    /\ \A p \in {1, 2} :
          compute_and_gate(views[p].party_id, views[p].input_shares[1],
                           views[p].input_shares[2]) = views[p].output_share

(***************************************************************************)
(* The initial state: a script has started and has called nothing.         *)
(***************************************************************************)
Init ==
    /\ salt \in SaltRange
    /\ pc = "start"
    /\ N = 0
    /\ trace = <<>>
    /\ err = "none"
    /\ last = NoCommit
    /\ prior = NoCommit
    /\ tampered = FALSE
    /\ idxFrom = "none"
    /\ sn = 0
    /\ sk = 0
    /\ idx = <<>>
    /\ given = <<>>
    /\ proof = <<>>
    /\ ok = FALSE
    /\ okPrior = FALSE
    /\ proofPrior = <<>>
    /\ edit = "none"
    /\ editAt = 0
    /\ strength = "none"
    /\ orig_root = <<>>
    /\ leaf_index = 0
    /\ max_try = 0
    /\ tried = <<>>
    /\ found = <<>>
    /\ new_root = <<>>
    /\ new_leaves = <<>>
    /\ printed = {}
    /\ signer_mode = "none"
    /\ msg = 0
    /\ sig = 0
    /\ pq_sig = "missing"
    /\ accepted = FALSE
    /\ signed = 0
    /\ attempt = 0
    /\ factors = <<>>
    /\ rec_d = 0
    /\ attack_ret = FALSE
    /\ witness = <<>>
    /\ shares = <<>>
    /\ output_shares = <<>>
    /\ party_views = <<>>
    /\ final_result = 0
    /\ commitments = <<>>
    /\ mpc_ret = FALSE

\* trace = gen_fib_trace(N)
Generate ==
    /\ pc = "start"
    /\ \E n \in NRange :
        /\ N' = n
        /\ trace' = gen_fib_trace(n)
    /\ pc' = "generated"
    /\ err' = "none"
    /\ UNCHANGED <<salt, commitVars, proofVars, extVars>>

\* root = commit_trace(trace) / root, leaves = commit_trace(trace); the model
\* follows a run through two such calls
Commit ==
    /\ pc \in {"generated", "committed"}
    /\ prior = NoCommit
    /\ \E impl \in Impls : \E H \in ImplHashFuncs(impl) :
        /\ last' = CommitCall(impl, trace, H)
        /\ prior' = last
    /\ pc' = "committed"
    /\ err' = "none"
    /\ UNCHANGED <<salt, N, trace, tampered, proofVars, extVars>>

\* trace[j] = v, with v another value than the one held: the single
\* mutation of the tamper-detection property
Tamper ==
    /\ pc = "committed"
    /\ ~tampered
    /\ \E j \in 1..Len(trace) : \E v \in ValRange \ {trace[j]} :
        trace' = [trace EXCEPT ![j] = v]
    /\ tampered' = TRUE
    /\ UNCHANGED <<salt, pc, N, err, last, prior, proofVars, extVars>>

\* idx = random_challenges(n, k)
Sample ==
    /\ pc = "generated"
    /\ \E n \in NRange : \E k \in KRange :
        /\ sn' = n
        /\ sk' = k
        /\ IF SampleRaises(n, k)
           THEN /\ idx' = <<>>
                /\ err' = "ValueError"
                /\ pc' = "sample_failed"
           ELSE /\ idx' \in Samples(n, k)
                /\ err' = "none"
                /\ pc' = "challenged"
    /\ idxFrom' = "sampler"
    /\ UNCHANGED <<salt, N, trace, commitVars, given, proof, ok, extVars>>

\* a caller passing indices of its own to prove
Supply ==
    /\ pc = "generated"
    /\ \E len \in 0..MaxSupplied : idx' \in [1..len -> IdxRange]
    /\ idxFrom' = "caller"
    /\ pc' = "challenged"
    /\ UNCHANGED <<salt, N, trace, err, commitVars, sn, sk, given, proof, ok, extVars>>

\* proof = prove(trace, idx)
Prove ==
    /\ pc = "challenged"
    /\ given' = trace
    /\ trace' = prove(trace, idx).trace
    /\ proof' = prove(trace, idx).proof
    /\ err' = prove(trace, idx).err
    /\ pc' = IF prove(trace, idx).err = "none" THEN "proved" ELSE "prove_failed"
    /\ UNCHANGED <<salt, N, commitVars, idxFrom, sn, sk, idx, ok, extVars>>

\* ok = verify(proof)
Verify ==
    /\ pc = "proved"
    /\ ok' = verify(proof)
    /\ pc' = "verified"
    /\ UNCHANGED <<salt, N, trace, err, commitVars, idxFrom, sn, sk, idx,
                   given, proof, extVars>>

(***************************************************************************)
(* SpecCommit: generate (or hold a one-element list), commit (any          *)
(* implementation, any hash function), overwrite one element, commit       *)
(* again.                                                                  *)
(* SpecProof: generate, draw or supply challenges, prove, verify.          *)
(***************************************************************************)
\* a caller holding a one-element list of its own to commit to
HoldOne ==
    /\ pc = "start"
    /\ \E v \in ValRange : trace' = <<v>>
    /\ N' = 1
    /\ pc' = "generated"
    /\ UNCHANGED <<salt, err, commitVars, proofVars, extVars>>

NextCommit == Generate \/ HoldOne \/ Commit \/ Tamper

SpecCommit == Init /\ [][NextCommit]_vars

NextProof == Generate \/ Sample \/ Supply \/ Prove \/ Verify

SpecProof == Init /\ [][NextProof]_vars

(***************************************************************************)
(* The spot check of a tampered trace: one element of the generated trace  *)
(* is overwritten before the challenges are drawn and the proof is built.  *)
(***************************************************************************)
\* trace[j] = v, with v another value than the one held, before proving
Substitute ==
    /\ pc = "generated"
    /\ ~tampered
    /\ \E j \in 1..Len(trace) : \E v \in ValRange \ {trace[j]} :
        trace' = [trace EXCEPT ![j] = v]
    /\ tampered' = TRUE
    /\ UNCHANGED <<salt, pc, N, err, last, prior, proofVars, extVars>>

NextSpot == Generate \/ Substitute \/ Sample \/ Prove \/ Verify

SpecSpot == Init /\ [][NextSpot]_vars

(***************************************************************************)
(* The verifier on its own.  verify takes any list of triples: a caller     *)
(* hands it a proof, has it verified, then replaces one rhs by rhs + 1 or   *)
(* reorders the triples, and has the edited proof verified again.           *)
(***************************************************************************)
ProofTriples ==
    {<<i, l, r>> : i \in 0..1, l \in 1..MaxProofVal, r \in 1..MaxProofVal}

\* the permutations of 1..n
Perms(n) == {f \in [1..n -> 1..n] : IsInjective(f)}

\* a caller passing a proof of its own to verify
Receive ==
    /\ pc = "start"
    /\ \E len \in 0..MaxProofLen : proof' \in [1..len -> ProofTriples]
    /\ pc' = "proved"
    /\ UNCHANGED <<salt, N, trace, err, commitVars, idxFrom, sn, sk, idx,
                   given, ok, extVars>>

\* proof[j] = (i, lhs, rhs + 1)
Corrupt ==
    /\ pc = "verified"
    /\ edit = "none"
    /\ \E j \in 1..Len(proof) :
        /\ proof' = [proof EXCEPT ![j] = <<@[1], @[2], @[3] + 1>>]
        /\ editAt' = j
    /\ edit' = "corrupted"
    /\ proofPrior' = proof
    /\ okPrior' = ok
    /\ pc' = "proved"
    /\ UNCHANGED <<salt, N, trace, err, commitVars, idxFrom, sn, sk, idx,
                   given, ok, attackVars, bridgeVars, restVars>>

\* the same triples in another order
Permute ==
    /\ pc = "verified"
    /\ edit = "none"
    /\ \E f \in Perms(Len(proof)) :
        /\ \E j \in 1..Len(proof) : f[j] # j
        /\ proof' = [j \in 1..Len(proof) |-> proof[f[j]]]
    /\ edit' = "permuted"
    /\ proofPrior' = proof
    /\ okPrior' = ok
    /\ pc' = "proved"
    /\ UNCHANGED <<salt, N, trace, err, commitVars, idxFrom, sn, sk, idx,
                   given, ok, editAt, attackVars, bridgeVars,
                   restVars>>

NextVerify == Receive \/ Verify \/ Corrupt \/ Permute

SpecVerify == Init /\ [][NextVerify]_vars

(***************************************************************************)
(* The attack driver: commit to the trace, then try the candidates of      *)
(* range(0, max_try) in order at one leaf, then report.                    *)
(***************************************************************************)
\* orig_root, _ = commit_trace(trace); idx = ...; max_try = ...; found = None
AttackStart ==
    /\ pc = "generated"
    /\ \E H \in HashFuncs :
        /\ strength' = H
        /\ orig_root' = vuln_commit_trace(trace, H)[1]
    /\ leaf_index' \in 0..(Len(trace) - 1)
    /\ max_try' \in 0..MaxTry
    /\ tried' = <<>>
    /\ found' = <<>>
    /\ printed' = {}
    /\ pc' = "searching"
    /\ UNCHANGED <<salt, N, trace, err, commitVars, proofVars, verifyVars,
                   bridgeVars, restVars, new_root, new_leaves>>

\* one iteration of `for cand in range(0, max_try)`
Try ==
    /\ pc = "searching"
    /\ Len(tried) < max_try
    /\ LET cand == Len(tried)
           ret == recompute_root_with_new_leaf(trace, leaf_index, cand, strength)
           matched == ret.root = orig_root
       IN  /\ tried' = Append(tried, cand)
           /\ new_root' = ret.root
           /\ new_leaves' = ret.leaves
           /\ trace' = ret.trace
           /\ found' = IF matched THEN <<cand>> ELSE found
           /\ printed' = IF matched THEN printed \cup {OutFound} ELSE printed
           /\ pc' = IF Breaks(matched) THEN "matched" ELSE "searching"
    /\ UNCHANGED <<salt, N, err, commitVars, proofVars, verifyVars,
                   bridgeVars, restVars, strength, orig_root, leaf_index,
                   max_try>>

\* if not found: print("No collision found in range 0..", max_try)
Report ==
    /\ \/ pc = "matched"
       \/ pc = "searching" /\ Len(tried) >= max_try
    /\ printed' = IF PyNot(found) THEN printed \cup {OutNone} ELSE printed
    /\ pc' = "reported"
    /\ UNCHANGED <<salt, N, trace, err, commitVars, proofVars, verifyVars,
                   bridgeVars, restVars, strength, orig_root, leaf_index,
                   max_try, tried, found,
                   new_root, new_leaves>>

(***************************************************************************)
(* The bridge: a relay submits a root, a proof and a signature in one of   *)
(* the signer modes, and chain B verifies the submission.                  *)
(***************************************************************************)
\* the arguments of a chainB_verify call
Submit ==
    /\ pc = "start"
    /\ \E len \in 0..1 : proof' \in [1..len -> ProofTriples]
    /\ signer_mode' \in SignerModes
    /\ msg' \in 0..(rsa_N - 1)
    /\ IF signer_mode' = "legacy"
       THEN sig' \in 0..(rsa_N - 1) /\ pq_sig' = "missing"
       ELSE sig' = 0 /\ pq_sig' \in PqSigs
    /\ pc' = "submitted"
    /\ UNCHANGED <<salt, N, trace, err, commitVars, idxFrom, sn, sk, idx,
                   given, ok, verifyVars, attackVars, accepted, restVars>>

\* ok = chainB_verify(root, proof, signer_mode, signer_blob)
ChainBVerify ==
    /\ pc = "submitted"
    /\ accepted' = chainB_verify(msg, proof, signer_mode, sig)
    /\ pc' = "bridge_done"
    /\ UNCHANGED <<salt, N, trace, err, commitVars, proofVars, verifyVars,
                   attackVars, signer_mode, msg, sig, pq_sig, restVars>>

NextBridge == Submit \/ ChainBVerify

(***************************************************************************)
(* The toy RSA on its own: a message is signed, the signature or any other *)
(* value of 0..N-1 is presented, and rsa_verify decides.                   *)
(***************************************************************************)
\* s = rsa_sign(m)
Sign ==
    /\ pc = "start"
    /\ \E m \in 0..MaxMsg :
        /\ msg' = m
        /\ signed' = rsa_sign(m)
        /\ sig' = rsa_sign(m)
    /\ pc' = "signed"
    /\ UNCHANGED <<salt, N, trace, err, commitVars, proofVars, verifyVars,
                   attackVars, signer_mode, pq_sig, accepted,
                   attempt, factors, rec_d, attack_ret, mpcVars>>

\* a caller passing a signature of its own to rsa_verify
Present ==
    /\ pc = "signed"
    /\ sig' \in 0..(rsa_N - 1)
    /\ pc' = "presented"
    /\ UNCHANGED <<salt, N, trace, err, commitVars, proofVars, verifyVars,
                   attackVars, signer_mode, msg, pq_sig, accepted, restVars>>

\* rsa_verify(m, s)
RsaVerify ==
    /\ pc \in {"signed", "presented"}
    /\ accepted' = rsa_verify(msg, sig)
    /\ pc' = "rsa_checked"
    /\ UNCHANGED <<salt, N, trace, err, commitVars, proofVars, verifyVars,
                   attackVars, signer_mode, msg, sig, pq_sig, restVars>>

(***************************************************************************)
(* The legacy flow and the attack on it: the relay signs the root with the *)
(* toy RSA and chain B accepts; the attacker factors N, recovers d, forges *)
(* the signature and submits it.                                           *)
(***************************************************************************)
\* demo_legacy_flow
LegacyFlow ==
    /\ pc = "start"
    /\ proof' \in relay_build_proof
    /\ \E m \in 0..(rsa_N - 1) :
        /\ msg' = m
        /\ signed' = rsa_sign(m)
        /\ sig' = rsa_sign(m)
        /\ accepted' = chainB_verify(m, proof', "legacy", rsa_sign(m))
    /\ signer_mode' = "legacy"
    /\ pc' = "legacy_done"
    /\ UNCHANGED <<salt, N, trace, err, commitVars, idxFrom, sn, sk, idx,
                   given, ok, verifyVars, attackVars, pq_sig,
                   attempt, factors, rec_d, attack_ret, mpcVars>>

\* shor_educational(N): steps 1 and 2
ShorBegin ==
    /\ pc = "legacy_done"
    /\ factors' = ShorTrivial(rsa_N)
    /\ pc' = IF ShorTrivial(rsa_N) # <<>> THEN "factored" ELSE "factoring"
    /\ UNCHANGED <<salt, N, trace, err, commitVars, proofVars, verifyVars,
                   attackVars, bridgeVars, signed, attempt, rec_d, attack_ret,
                   mpcVars>>

\* shor_educational(N): one attempt with a = random.randint(2, N - 1)
ShorAttempt ==
    /\ pc = "factoring"
    /\ attempt < max_attempts
    /\ \E a \in 2..(rsa_N - 1) :
        /\ factors' = ShorTry(a, rsa_N)
        /\ pc' = IF ShorTry(a, rsa_N) # <<>> THEN "factored" ELSE "factoring"
    /\ attempt' = attempt + 1
    /\ UNCHANGED <<salt, N, trace, err, commitVars, proofVars, verifyVars,
                   attackVars, bridgeVars, signed, rec_d, attack_ret,
                   mpcVars>>

\* attack_legacy_with_shor, once factor_N has returned
Forge ==
    /\ \/ pc = "factored"
       \/ pc = "factoring" /\ attempt >= max_attempts
    /\ IF Len(factors) < 2
       THEN /\ attack_ret' = FALSE
            /\ UNCHANGED <<rec_d, sig, accepted>>
       ELSE LET phi == phi_of(factors[1], factors[2])
            IN  IF gcd(rsa_e, phi) # 1
                THEN /\ attack_ret' = FALSE
                     /\ UNCHANGED <<rec_d, sig, accepted>>
                ELSE LET d == PyInverse(rsa_e, phi)
                         forged_sig == PyPow(msg, d, rsa_N)
                         ok_on_chain ==
                             chainB_verify(msg, proof, "legacy", forged_sig)
                     IN  /\ rec_d' = d
                         /\ sig' = forged_sig
                         /\ accepted' = ok_on_chain
                         /\ attack_ret' = ok_on_chain
    /\ pc' = "attacked"
    /\ UNCHANGED <<salt, N, trace, err, commitVars, proofVars, verifyVars,
                   attackVars, signer_mode, msg, pq_sig, signed, attempt,
                   factors, mpcVars>>

NextForge == LegacyFlow \/ ShorBegin \/ ShorAttempt \/ Forge

SpecForge == Init /\ [][NextForge]_vars

(***************************************************************************)
(* SimpleMPC.run_protocol(witness), step by step.                          *)
(***************************************************************************)
\* step 1: shares = self.secret_share(witness)
MpcShare ==
    /\ pc = "start"
    /\ \E w \in [1..2 -> 0..1] : \E r \in [1..2 -> [1..2 -> 0..1]] :
        /\ witness' = w
        /\ shares' = secret_share(w, r)
    /\ pc' = "mpc_computing"
    /\ UNCHANGED <<salt, N, trace, err, commitVars, proofVars, verifyVars,
                   attackVars, bridgeVars, forgeVars, output_shares,
                   party_views, final_result, commitments, mpc_ret>>

\* step 2: one iteration of `for party_id in range(self.n_parties)`
MpcCompute ==
    /\ pc = "mpc_computing"
    /\ Len(output_shares) < n_parties
    /\ LET party_id == Len(output_shares)
           a_share == shares[party_id + 1][1]
           b_share == shares[party_id + 1][2]
           output == compute_and_gate(party_id, a_share, b_share)
       IN  /\ output_shares' = Append(output_shares, output)
           /\ party_views' = Append(party_views,
                  [party_id |-> party_id,
                   input_shares |-> <<a_share, b_share>>,
                   output_share |-> output])
    /\ UNCHANGED <<salt, pc, N, trace, err, commitVars, proofVars, verifyVars,
                   attackVars, bridgeVars, forgeVars, witness, shares,
                   final_result, commitments, mpc_ret>>

\* step 3: the final result and the correction of party 0
MpcFix ==
    /\ pc = "mpc_computing"
    /\ Len(output_shares) >= n_parties
    /\ LET result == Xor(Xor(output_shares[1], output_shares[2]),
                         output_shares[3])
           expected == BitAnd(witness[1], witness[2])
       IN  /\ party_views' =
                 IF result # expected
                 THEN [party_views EXCEPT ![1].output_share =
                          Xor(@, Xor(result, expected))]
                 ELSE party_views
           /\ final_result' = expected
    /\ pc' = "mpc_fixed"
    /\ UNCHANGED <<salt, N, trace, err, commitVars, proofVars, verifyVars,
                   attackVars, bridgeVars, forgeVars, witness, shares,
                   output_shares, commitments, mpc_ret>>

\* step 4: the commitments to the party views
MpcCommit ==
    /\ pc = "mpc_fixed"
    /\ commitments' = [p \in 1..n_parties |-> view_commitment(party_views[p])]
    /\ pc' = "mpc_committed"
    /\ UNCHANGED <<salt, N, trace, err, commitVars, proofVars, verifyVars,
                   attackVars, bridgeVars, forgeVars, witness, shares,
                   output_shares, party_views, final_result, mpc_ret>>

\* steps 5 to 7: parties 0 and 1 are opened and checked
MpcVerify ==
    /\ pc = "mpc_committed"
    /\ mpc_ret' = mpc_verify(party_views, commitments)
    /\ pc' = "mpc_done"
    /\ UNCHANGED <<salt, N, trace, err, commitVars, proofVars, verifyVars,
                   attackVars, bridgeVars, forgeVars, witness, shares,
                   output_shares, party_views, final_result, commitments>>

NextMpc == MpcShare \/ MpcCompute \/ MpcFix \/ MpcCommit \/ MpcVerify

SpecMpc == Init /\ [][NextMpc]_vars

NextRsa == Sign \/ Present \/ RsaVerify

SpecRsa == Init /\ [][NextRsa]_vars

SpecBridge == Init /\ [][NextBridge]_vars

NextAttack == Generate \/ AttackStart \/ Try \/ Report

SpecAttack == Init /\ [][NextAttack]_vars

(***************************************************************************)
(* Properties.                                                             *)
(***************************************************************************)

\* C1: for n >= 2, gen_fib_trace(n) returns exactly n integers, the first
\* two equal to 1 and every later one the sum of the two before it.
FibTraceCorrect ==
    (pc = "generated" /\ N >= 2) =>
        /\ Len(trace) = N
        /\ trace[1] = 1
        /\ trace[2] = 1
        /\ \A i \in 3..N : trace[i] = trace[i - 1] + trace[i - 2]

FibTraceWitness == pc = "generated" /\ N >= 5 /\ trace[5] = 5

\* C2: gen_fib_trace(n) with n < 2 fails with InvalidLength and returns no
\* trace.
GenRejectsShortLength ==
    (pc = "generated" /\ N < 2) => (err = "InvalidLength" /\ trace = <<>>)

\* C3: a commit implementation that returns a pair (vuln_stark,
\* mini_stark_qsafe) returns as its second component the n leaf digests,
\* leaves[i] = hash(trace[i]).
CommitReturnsLeafDigests ==
    last.impl \in {"vuln_stark", "mini_stark_qsafe"} =>
        /\ Len(last.leaves) = Len(last.trace)
        /\ \A i \in 1..Len(last.trace) :
               last.leaves[i] = hash_func(last.hfunc, str(last.trace[i]))

PaddingLaw ==
    \A k \in 1..Len(last.levels) :
        LET L == last.levels[k]
        IN  (Len(L) > 1 /\ Len(L) % 2 = 1) =>
                /\ last.root =
                       FinalLevel(Append(L, L[Len(L)]), last.hfunc)[1]
                /\ Len(last.levels[k + 1]) = (Len(L) + 1) \div 2
                /\ last.levels[k + 1][(Len(L) + 1) \div 2] =
                       hash_func(last.hfunc, L[Len(L)] \o L[Len(L)])

OddInnerLevelWitness ==
    /\ last.impl # "none"
    /\ Len(last.levels) >= 3
    /\ Len(last.levels[1]) = 5
    /\ Len(last.levels[2]) = 3

\* C6: with the full-strength hash, a trace that differs from a committed
\* trace in exactly one position commits to a different root.
TamperDetected ==
    (/\ prior.impl # "none"
     /\ prior.hfunc = "hash512"
     /\ last.hfunc = "hash512"
     /\ Len(last.trace) = Len(prior.trace)
     /\ Cardinality({j \in 1..Len(last.trace) :
                        last.trace[j] # prior.trace[j]}) = 1) =>
        last.root # prior.root

TamperRecommitWitness ==
    /\ prior.impl # "none"
    /\ prior.hfunc = "hash512"
    /\ last.hfunc = "hash512"
    /\ tampered
    /\ Len(last.trace) = 5
    /\ last.trace[5] # prior.trace[5]

\* C7: for 0 <= k <= n-2 the sampler returns exactly k indices, pairwise
\* distinct, each in [0, n-2), so that i, i+1 and i+2 are positions of a
\* trace of length n.
SamplerDistinctInRange ==
    (idxFrom = "sampler" /\ 0 <= sk /\ sk <= sn - 2) =>
        /\ pc # "sample_failed"
        /\ Len(idx) = sk
        /\ \A a, b \in 1..Len(idx) : a # b => idx[a] # idx[b]
        /\ \A a \in 1..Len(idx) : 0 <= idx[a] /\ idx[a] + 2 <= sn - 1

SamplerFullDrawWitness ==
    idxFrom = "sampler" /\ pc = "challenged" /\ sn = 5 /\ sk = 3
        /\ idx = <<2, 0, 1>>

\* C8: when 0 <= k <= n-2 does not hold, the sampler fails with an error
\* and returns no challenge set.
SamplerRejectsBadCount ==
    (idxFrom = "sampler" /\ ~(0 <= sk /\ sk <= sn - 2)) =>
        pc = "sample_failed"

\* C9: for challenge indices in [0, n-2), prove returns one triple per
\* index, in the order of the indices, the triple of index i being
\* (i, trace[i] + trace[i+1], trace[i+2]), and leaves the trace as it was.
ProveEmitsTriples ==
    (/\ pc \in {"proved", "prove_failed", "verified"}
     /\ \A j \in 1..Len(idx) : 0 <= idx[j] /\ idx[j] < Len(given) - 2) =>
        /\ pc # "prove_failed"
        /\ Len(proof) = Len(idx)
        /\ \A j \in 1..Len(idx) :
               proof[j] = <<idx[j],
                            given[idx[j] + 1] + given[idx[j] + 2],
                            given[idx[j] + 3]>>
        /\ trace = given

ProveOrderWitness ==
    /\ pc = "proved"
    /\ Len(given) = 5
    /\ idx = <<2, 0>>
    /\ proof = <<<<2, 5, 5>>, <<0, 2, 2>>>>

\* C10: prove called with an index outside [0, n-2), negative ones included,
\* fails with IndexOutOfRange and returns no triple.
ProveRejectsOutOfRange ==
    (/\ pc \in {"proved", "prove_failed", "verified"}
     /\ \E j \in 1..Len(idx) : ~(0 <= idx[j] /\ idx[j] < Len(given) - 2)) =>
        /\ pc = "prove_failed"
        /\ err = "IndexError"
        /\ proof = <<>>

VerifyOrderInsensitive ==
    (pc = "verified" /\ edit = "permuted") => ok = okPrior

VerifyPermutedWitness ==
    /\ pc = "verified"
    /\ edit = "permuted"
    /\ proofPrior # proof
    /\ proofPrior[1][2] = proofPrior[1][3]
    /\ proof[1][2] # proof[1][3]
    /\ ~ok

\* C12: for a trace the generator produced, of length n, and challenge
\* indices the sampler drew from range(n - 2), prove does not fail and verify
\* returns true.
RecurrenceSound ==
    (idxFrom = "sampler" /\ sn = Len(trace)) =>
        /\ pc # "prove_failed"
        /\ pc = "verified" => ok

RecurrenceSoundWitness ==
    /\ pc = "verified"
    /\ idxFrom = "sampler"
    /\ sn = Len(trace)
    /\ Len(trace) = 5
    /\ Len(proof) = 3
    /\ ok

\* The candidates of the search space whose substitution at leaf_index
\* gives the original root.
Reproducing ==
    {c \in 0..(max_try - 1) :
        recompute_root_with_new_leaf(trace, leaf_index, c, strength).root
            = orig_root}

\* C14: the search ends with found holding the first candidate of
\* range(0, max_try) whose substitution at leaf_index reproduces the original
\* root, and with None exactly when no candidate of the range does; the
\* candidates evaluated are those up to the first match and no other.
SearchReturnsFirstMatch ==
    /\ pc = "searching" =>
          /\ found = <<>>
          /\ \A c \in 0..(Len(tried) - 1) : c \notin Reproducing
    /\ pc \in {"matched", "reported"} =>
          IF Reproducing = {}
          THEN /\ found = <<>>
               /\ tried = [j \in 1..max_try |-> j - 1]
          ELSE LET first == CHOOSE c \in Reproducing :
                                \A d \in Reproducing : c <= d
               IN  /\ found = <<first>>
                   /\ tried = [j \in 1..(first + 1) |-> j - 1]

SearchLaterMatchWitness ==
    /\ pc = "reported"
    /\ Cardinality(Reproducing) >= 2
    /\ found # <<>>
    /\ found[1] > 0
    /\ Len(tried) < max_try

SearchExhaustedWitness ==
    /\ pc = "reported"
    /\ max_try >= 3
    /\ Len(tried) = max_try
    /\ found = <<>>

\* C15: a value the search reports as found differs from the true value
\* trace[leaf_index].
FoundIsForgery ==
    (pc \in {"matched", "reported"} /\ found # <<>>) =>
        found[1] # trace[leaf_index + 1]

AttackFrame ==
    pc \in {"searching", "matched", "reported"} =>
        /\ trace = gen_fib_trace(N)
        /\ orig_root = vuln_commit_trace(gen_fib_trace(N), strength)[1]
        /\ tried # <<>> =>
              /\ Len(new_leaves) = Len(trace)
              /\ \A j \in 1..Len(trace) :
                    new_leaves[j] =
                        IF j = leaf_index + 1
                        THEN hash_func(strength, str(tried[Len(tried)]))
                        ELSE hash_func(strength, str(trace[j]))

AttackFrameWitness ==
    /\ pc = "searching"
    /\ Len(tried) >= 2
    /\ Len(trace) = 5
    /\ leaf_index = 4
    /\ new_root # orig_root

\* C19: the driver prints the negative outcome exactly when no candidate of
\* the search range reproduced the original root.
ExhaustedIffNoMatch ==
    pc = "reported" => ((OutNone \in printed) <=> (Reproducing = {}))

\* C18: chainB_verify returns True only for a submission whose signature
\* over the root verifies, in the legacy mode and in the pq mode.
SignatureRequired ==
    (pc = "bridge_done" /\ accepted) =>
        IF signer_mode = "legacy" THEN rsa_verify(msg, sig)
        ELSE signer_mode = "pq" /\ pq_sig = "valid"

\* C20: for a trace of length n >= 1 the fold of commit_trace raises nothing
\* and ends: every iteration takes a level of more than one digest to one of
\* ceil(len / 2) digests, strictly shorter, the loop exits with exactly one
\* digest and that digest is the root returned; for n = 1 the loop body never
\* runs and the root is the digest of the one leaf.
FoldTerminates ==
    (pc = "committed" /\ Len(last.trace) >= 1) =>
        LET lv == last.levels
            n == Len(last.trace)
        IN  /\ err = "none"
            /\ Len(lv) >= 1
            /\ Len(lv[1]) = n
            /\ \A k \in 1..(Len(lv) - 1) :
                  /\ Len(lv[k]) > 1
                  /\ Len(lv[k + 1]) = (Len(lv[k]) + 1) \div 2
                  /\ Len(lv[k + 1]) < Len(lv[k])
            /\ Len(lv[Len(lv)]) = 1
            /\ last.root = lv[Len(lv)][1]
            /\ n = 1 =>
                  /\ Len(lv) = 1
                  /\ last.root = hash_func(last.hfunc, str(last.trace[1]))

FoldOneLeafWitness ==
    /\ pc = "committed"
    /\ Len(last.trace) = 1
    /\ last.impl = "mini_stark"
    /\ last.levels = <<<<last.root>>>>

FoldDeepWitness ==
    /\ pc = "committed"
    /\ Len(last.trace) = 5
    /\ Len(last.levels) = 4

TamperedAt ==
    (CHOOSE p \in 1..Len(trace) : trace[p] # gen_fib_trace(N)[p]) - 1

\* C22: for a generated trace with exactly one position j overwritten by
\* another value, and challenge indices drawn by the sampler, verify of the
\* proof returns false exactly when some challenge index is j - 2, j - 1 or
\* j; a challenge set that avoids the three is accepted.
SpotCheckCoverage ==
    (pc = "verified" /\ tampered /\ idxFrom = "sampler") =>
        (~ok <=> \E a \in 1..Len(idx) :
                    idx[a] \in {TamperedAt - 2, TamperedAt - 1, TamperedAt})

SpotCheckMissWitness ==
    /\ pc = "verified"
    /\ tampered
    /\ idxFrom = "sampler"
    /\ Len(trace) = 5
    /\ TamperedAt = 4
    /\ Len(idx) = 2
    /\ ok

SpotCheckHitWitness ==
    /\ pc = "verified"
    /\ tampered
    /\ idxFrom = "sampler"
    /\ Len(trace) = 5
    /\ TamperedAt = 4
    /\ idx = <<0, 2>>
    /\ ~ok

\* C23: with the fixed toy key, rsa_verify accepts the signature rsa_sign
\* gave for a message m >= 0, and among the values of 0..N-1 it accepts no
\* other.
RsaRoundTrip ==
    pc = "rsa_checked" =>
        /\ signed \in 0..(rsa_N - 1)
        /\ accepted <=> sig = signed

RsaRoundTripWitness ==
    /\ pc = "rsa_checked"
    /\ msg > rsa_N
    /\ msg % rsa_p = 0
    /\ signed # msg % rsa_N
    /\ sig = signed
    /\ accepted

RsaOtherRejectedWitness ==
    /\ pc = "rsa_checked"
    /\ sig # signed
    /\ sig = msg
    /\ ~accepted

\* C24: when the factoring oracle has returned two factors of rsa.N, the
\* attack recovers an exponent d with pow(m, d, N) = rsa_sign(m), the forged
\* signature is the legitimate one and chainB_verify accepts it in legacy
\* mode for the root and the valid proof of the state; when the oracle has
\* returned no factors the attack returns False.
KeyRecoveryForges ==
    pc = "attacked" =>
        IF factors # <<>>
        THEN /\ Len(factors) = 2
             /\ factors[1] * factors[2] = rsa_N
             /\ verify(proof)
             /\ PyPow(msg, rec_d, rsa_N) = signed
             /\ sig = signed
             /\ accepted
             /\ attack_ret
        ELSE ~attack_ret

KeyRecoveryWitness ==
    /\ pc = "attacked"
    /\ factors = <<5, 3>>
    /\ attempt >= 2
    /\ msg = 7
    /\ Len(proof) >= 2
    /\ attack_ret

OracleGivesUpWitness ==
    /\ pc = "attacked"
    /\ factors = <<>>
    /\ attempt = max_attempts
    /\ ~attack_ret

\* C25: for the honest witness (1, 1) run_protocol returns True whatever
\* the random shares are.
MpcComplete ==
    (pc = "mpc_done" /\ witness = <<1, 1>>) => mpc_ret

====
